---- MODULE Spec2Model ----
(***************************************************************************)
(* A model of src/agents/customer_support_agent.py: the MemoryBank, the    *)
(* Agent and the CustomerSupportMultiAgentSystem orchestrator.             *)
(*                                                                         *)
(* Three specifications share the variables:                               *)
(*   SpecMem      a client drives the MemoryBank through its three methods *)
(*   Spec         clients drive the orchestrator on one asyncio event loop *)
(*   SpecThreads  store_interaction is called from several OS threads      *)
(***************************************************************************)
EXTENDS Integers, Sequences, FiniteSets, TLC

VARIABLES
    memory_store,   \* MemoryBank.memory_store: session id -> list of dicts
    clock,          \* the value the next datetime.now() returns
    ret,            \* what the most recent call returned (NoCall after a step that returns nothing)
    state,          \* CustomerSupportMultiAgentSystem.state
    agent_state,    \* Agent.state of the three agents
    calls,          \* per client: the protocol call it is awaiting, with its coroutines' positions
    started,        \* how many protocol calls the clients have made
    failed,         \* per agent: invocations of process_query that have raised
    spc,            \* the pause_session or resume_session call being stepped through
    tpc,            \* per thread: position inside store_interaction
    targ,           \* per thread: the session_id argument of its call
    tref,           \* per thread: identity of the list object it loaded (0: none)
    slot_id,        \* per session: identity of the list object in its slot (0: no slot)
    completed       \* per session: store_interaction calls that have returned

vars == <<memory_store, clock, ret, state, agent_state, calls, started, failed, spc,
          tpc, targ, tref, slot_id, completed>>

(***************************************************************************)
(* Bounds of the model                                                     *)
(***************************************************************************)
\* store_interaction calls made in SpecMem
MaxStores == 12
\* largest limit passed to retrieve_session_memory
MaxLimit == 3
\* the most negative limit passed is 0 - MaxNeg
MaxNeg == 2

(***************************************************************************)
(* Program constants                                                       *)
(***************************************************************************)
\* retrieve_session_memory(self, session_id, limit = 10)
DefaultLimit == 10
\* memory[-3:] in compact_context
RecentCount == 3

\* SessionState
ACTIVE == "active"
PAUSED == "paused"
COMPLETED == "completed"
FAILED == "failed"
SessionState == {ACTIVE, PAUSED, COMPLETED, FAILED}

Min(a, b) == IF a < b THEN a ELSE b
Max(a, b) == IF a > b THEN a ELSE b

(***************************************************************************)
(* Python values                                                           *)
(***************************************************************************)
\* list[start:], with Python's clamping of a negative or too large start
PySliceFrom(list, start) ==
    LET n == Len(list)
        i == IF start < 0 THEN Max(n + start, 0) ELSE Min(start, n)
    IN  SubSeq(list, i + 1, n)

\* {**d, key: value}
DictWith(d, key, value) ==
    [k \in (DOMAIN d) \cup {key} |-> IF k = key THEN value ELSE d[k]]

\* d.get(key, default)
DictGet(d, key, default) == IF key \in DOMAIN d THEN d[key] ELSE default

\* sep.join(strings)
RECURSIVE Join(_, _)
Join(sep, strings) ==
    IF strings = <<>> THEN ""
    ELSE IF Len(strings) = 1 THEN strings[1]
    ELSE strings[1] \o sep \o Join(sep, Tail(strings))

\* {} : the dict with no keys
EmptyDict == [k \in {} |-> ""]

(***************************************************************************)
(* MemoryBank                                                              *)
(***************************************************************************)
\* as store_interaction, without the test of line 53: the slot is bound to a
\* new list on every call
store_interaction_rebinds(store, session_id, interaction, now) ==
    [s \in (DOMAIN store) \cup {session_id} |->
        IF s = session_id
        THEN <<DictWith(interaction, "timestamp", now)>>
        ELSE store[s]]

\* store_interaction: the dict after the call, the timestamp being `now`
store_interaction(store, session_id, interaction, now) ==
    LET created == IF session_id \in DOMAIN store
                   THEN store
                   ELSE [s \in (DOMAIN store) \cup {session_id} |->
                            IF s = session_id THEN <<>> ELSE store[s]]
    IN  [created EXCEPT ![session_id] =
            Append(@, DictWith(interaction, "timestamp", now))]

\* as retrieve_session_memory, slicing [:limit] in place of [-limit:]
retrieve_session_memory_head(store, session_id, limit) ==
    IF session_id \notin DOMAIN store
    THEN <<>>
    ELSE SubSeq(store[session_id], 1, Min(Max(limit, 0), Len(store[session_id])))

\* retrieve_session_memory: the list returned
retrieve_session_memory(store, session_id, limit) ==
    IF session_id \notin DOMAIN store
    THEN <<>>
    ELSE PySliceFrom(store[session_id], 0 - limit)

\* compact_context: the dict returned
compact_context(store, session_id) ==
    LET memory == retrieve_session_memory(store, session_id, DefaultLimit)
        recent == PySliceFrom(memory, 0 - RecentCount)
    IN  IF memory = <<>>
        THEN EmptyDict
        ELSE [session_id |-> session_id,
              interaction_count |-> Len(memory),
              first_interaction |-> memory[1].timestamp,
              last_interaction |-> memory[Len(memory)].timestamp,
              recent_summary |->
                  Join(" | ", [i \in 1..Len(recent) |->
                                  DictGet(recent[i], "summary", "")])]

NoCall == [op |-> "none"]

(***************************************************************************)
(* The objects as their constructors leave them                            *)
(***************************************************************************)
\* the three agents, in the order of CustomerSupportMultiAgentSystem.__init__
routing_agent == "router-001"
support_agent == "support-001"
escalation_agent == "escalate-001"
Agents == {routing_agent, support_agent, escalation_agent}

\* MemoryBank.__init__: self.memory_store = {}
NewMemoryStore == [s \in {} |-> <<>>]

\* the coroutines of the application that call the two protocols; each
\* awaits its call before it makes the next
Clients == {1, 2}

\* a client that is not inside a protocol call
NoRequest == [kind |-> "none"]
NoSessionCall == [op |-> "none"]

\* OS threads that call store_interaction, and the calls they make in all
MaxThreads == 2
MaxThreadCalls == 4
Threads == 1..MaxThreads
ThreadSessions == {"s1", "s2"}

InitMemory ==
    /\ memory_store = NewMemoryStore
    /\ clock = 1
    /\ ret = NoCall

InitSystem ==
    /\ state = ACTIVE
    /\ agent_state = [a \in Agents |-> ACTIVE]
    /\ calls = [client \in Clients |-> NoRequest]
    /\ started = 0
    /\ failed = [a \in Agents |-> 0]
    /\ spc = NoSessionCall

InitThreads ==
    /\ tpc = [t \in Threads |-> "idle"]
    /\ targ = [t \in Threads |-> ""]
    /\ tref = [t \in Threads |-> 0]
    /\ slot_id = [s \in ThreadSessions |-> 0]
    /\ completed = [s \in ThreadSessions |-> 0]

Init == InitMemory /\ InitSystem /\ InitThreads

systemVars == <<state, agent_state, calls, started, failed, spc>>
threadVars == <<tpc, targ, tref, slot_id, completed>>

(***************************************************************************)
(* SpecMem: a client drives the MemoryBank through its three methods       *)
(***************************************************************************)
MemSessions == {"s1", "s2"}

\* the dicts the client passes to store_interaction, in rotation
Interactions ==
    << [summary |-> "refund"],
       [note |-> "callback"],
       [summary |-> "login", timestamp |-> 0] >>

Limits == (0 - MaxNeg)..MaxLimit

CallStoreInteraction(session_id) ==
    /\ clock <= MaxStores
    /\ memory_store' =
          store_interaction(memory_store, session_id,
                            Interactions[(clock % Len(Interactions)) + 1], clock)
    /\ clock' = clock + 1
    /\ ret' = NoCall
    /\ UNCHANGED <<systemVars, threadVars>>

\* as CallRetrieveSessionMemory, reading through
\* self.memory_store.setdefault(session_id, [])
CallRetrieveSessionMemory_setdefault(session_id, limit) ==
    /\ ret' = [op |-> "retrieve_session_memory", session_id |-> session_id,
               limit |-> limit,
               value |-> retrieve_session_memory(memory_store, session_id, limit)]
    /\ memory_store' =
          IF session_id \in DOMAIN memory_store
          THEN memory_store
          ELSE [s \in (DOMAIN memory_store) \cup {session_id} |->
                   IF s = session_id THEN <<>> ELSE memory_store[s]]
    /\ UNCHANGED <<clock, systemVars, threadVars>>

CallRetrieveSessionMemory(session_id, limit) ==
    /\ ret' = [op |-> "retrieve_session_memory", session_id |-> session_id,
               limit |-> limit,
               value |-> retrieve_session_memory(memory_store, session_id, limit)]
    /\ UNCHANGED <<memory_store, clock, systemVars, threadVars>>

CallCompactContext(session_id) ==
    /\ ret' = [op |-> "compact_context", session_id |-> session_id,
               value |-> compact_context(memory_store, session_id)]
    /\ UNCHANGED <<memory_store, clock, systemVars, threadVars>>

NextMem ==
    \/ \E s \in MemSessions : CallStoreInteraction(s)
    \/ \E s \in MemSessions, k \in Limits : CallRetrieveSessionMemory(s, k)
    \/ \E s \in MemSessions : CallCompactContext(s)

SpecMem == Init /\ [][NextMem]_vars

(***************************************************************************)
(* Claims about the MemoryBank (checked under SpecMem)                     *)
(***************************************************************************)
\* the list stored for a session, empty for a session without a slot
LogOf(session_id) ==
    IF session_id \in DOMAIN memory_store THEN memory_store[session_id] ELSE <<>>

\* the last m entries of a list, oldest first
LastEntries(list, m) == [i \in 1..m |-> list[Len(list) - m + i]]

Retrieved == ret.op = "retrieve_session_memory"
Compacted == ret.op = "compact_context"

\* C4: a retrieval with limit k >= 1 from a session holding N entries returns
\* exactly min(k, N) entries: the most recently stored ones, in stored order.
C4_BoundedRetrieval ==
    (Retrieved /\ ret.limit >= 1) =>
        LET log == LogOf(ret.session_id)
            m == Min(ret.limit, Len(log))
        IN  /\ Len(ret.value) = m
            /\ ret.value = LastEntries(log, m)

\* a retrieval of fewer entries than are stored, which returned that many
C4_Witness ==
    /\ Retrieved
    /\ ret.limit = 2
    /\ Len(LogOf(ret.session_id)) = 5
    /\ Len(ret.value) = 2
    /\ ret.value[2] = LogOf(ret.session_id)[5]

\* C5: a retrieval with limit <= 0 returns an empty sequence, whatever the
\* session and however many interactions it holds.
C5_NonPositiveLimitEmpty ==
    (Retrieved /\ ret.limit <= 0) => ret.value = <<>>

\* C6: compact_context of a session holding N >= 1 entries reports
\* interaction_count = N and first_interaction = the timestamp of the oldest
\* stored entry.
C6_CompactCountsAll ==
    (Compacted /\ Len(LogOf(ret.session_id)) >= 1) =>
        /\ ret.value.interaction_count = Len(LogOf(ret.session_id))
        /\ ret.value.first_interaction = LogOf(ret.session_id)[1].timestamp

\* C7: reading a session that has no slot returns the empty sequence
\* (retrieve_session_memory) or the empty mapping (compact_context), and the
\* read leaves the memory store as it was: no slot is added for the session.
C7_UnknownSessionReads ==
    [][ /\ (Retrieved' /\ ret'.session_id \notin DOMAIN memory_store)
            => (ret'.value = <<>> /\ memory_store' = memory_store)
        /\ (Compacted' /\ ret'.session_id \notin DOMAIN memory_store)
            => (ret'.value = EmptyDict /\ memory_store' = memory_store)
      ]_vars

\* compact_context has been called for a session without a slot while another
\* session holds entries
C7_Witness ==
    /\ Compacted
    /\ ret.session_id \notin DOMAIN memory_store
    /\ DOMAIN memory_store # {}
    /\ ret.value = EmptyDict


(***************************************************************************)
(* Agent and CustomTools                                                   *)
(***************************************************************************)
\* protocol calls made in Spec
MaxCalls == 2

\* the customer query each client passes to the two protocols
QueryOf(client) == IF client = 1 THEN "billing" ELSE "outage"

\* Agent.role, as passed by CustomerSupportMultiAgentSystem.__init__
role(agent) ==
    CASE agent = routing_agent -> "Issue Router"
      [] agent = support_agent -> "Technical Support"
      [] agent = escalation_agent -> "Escalation Handler"

\* Agent.session_id and CustomerSupportMultiAgentSystem.session_id: four
\* uuid4 values, taken to be distinct
session_id_of(agent) == "session-of-" \o agent
system_session_id == "session-of-system"

\* the ways an awaited tool call can end: it returns a result with a top
\* entry, it returns the negative result (found = false, no results), or it
\* raises a ToolFailure
ToolOutcomes == {"hit", "empty", "fail"}

\* CustomTools.search_knowledge_base: the dict it returns
search_knowledge_base(query) ==
    [found |-> TRUE, results |-> <<"Result for " \o query>>, confidence |-> 85]

\* the value of `result` after the await of line 133 has returned
SearchResult(outcome, query) ==
    IF outcome = "hit"
    THEN search_knowledge_base(query)
    ELSE [found |-> FALSE, results |-> <<>>, confidence |-> 0]

\* the two dicts process_query passes to store_interaction
QueryInteraction(agent, query) ==
    [agent |-> agent, query |-> query, role |-> role(agent)]
ResponseInteraction(agent, response) ==
    [agent |-> agent, response |-> response, tool_used |-> "search_knowledge_base"]

\* f"[{self.role}] Found response: {result['results'][0]}"
FormatResponse(agent, result) ==
    "[" \o role(agent) \o "] Found response: " \o result.results[1]

\* the MemoryBank with the clock its timestamps are read from
World(store, now) == [store |-> store, clock |-> now]

\* one store_interaction call: the record is stamped and time moves on
Appended(world, session_id, interaction) ==
    World(store_interaction(world.store, session_id, interaction, world.clock),
          world.clock + 1)

\* one invocation of Agent.process_query, not yet made.  qts and rts are the
\* timestamps of the two records it has appended (0: not appended)
NoInvocation ==
    [pc |-> "none", query |-> "", raised |-> FALSE, value |-> "", qts |-> 0, rts |-> 0]

Finished(invocation) == invocation.pc \in {"returned", "raised"}

\* 1 if an exception left the invocation, 0 if not
Raised(invocation) == IF invocation.pc = "raised" THEN 1 ELSE 0

\* as process_query_begin_memory, the tool being called before the query
\* record is stored
process_query_begin_memory_tool_first(world, agent, query) == world

\* as process_query_begin_memory, the agents storing under one session id,
\* the router's
process_query_begin_memory_one_session(world, agent, query) ==
    Appended(world, session_id_of(routing_agent), QueryInteraction(agent, query))

\* process_query, lines 123-133, up to the await of the tool call: the
\* invocation, and the memory it leaves
process_query_begin(world, query) ==
    [NoInvocation EXCEPT !.pc = "awaiting", !.query = query, !.qts = world.clock]
process_query_begin_memory(world, agent, query) ==
    Appended(world, session_id_of(agent), QueryInteraction(agent, query))

\* as process_query_finish_memory, an invocation that raises taking its query
\* record back out of the log
process_query_finish_memory_rolls_back(world, agent, finished) ==
    IF finished.pc = "returned"
    THEN Appended(world, session_id_of(agent), ResponseInteraction(agent, finished.value))
    ELSE World([world.store EXCEPT ![session_id_of(agent)] =
                   SelectSeq(@, LAMBDA record : record.timestamp # finished.qts)],
               world.clock)

\* process_query, lines 133-142, from the end of the tool call: an exception
\* of the tool, or the IndexError of results[0] on an empty result, leaves
\* process_query; otherwise the response is built, recorded and returned
process_query_finish(world, agent, invocation, outcome) ==
    IF outcome = "fail"
    THEN [invocation EXCEPT !.pc = "raised", !.raised = TRUE, !.value = "ToolFailure"]
    ELSE IF SearchResult(outcome, invocation.query).results = <<>>
    THEN [invocation EXCEPT !.pc = "raised", !.raised = TRUE, !.value = "IndexError"]
    ELSE [invocation EXCEPT
             !.pc = "returned",
             !.value = FormatResponse(agent, SearchResult(outcome, invocation.query)),
             !.rts = world.clock]
process_query_finish_memory(world, agent, finished) ==
    IF finished.pc = "returned"
    THEN Appended(world, session_id_of(agent), ResponseInteraction(agent, finished.value))
    ELSE world

(***************************************************************************)
(* CustomerSupportMultiAgentSystem: the two protocols                      *)
(***************************************************************************)
AgentOrder == <<routing_agent, support_agent, escalation_agent>>

\* the query handle_complex_escalation passes to each stage
StageQuery(agent, issue) ==
    CASE agent = routing_agent -> issue
      [] agent = support_agent -> "Escalated: " \o issue
      [] agent = escalation_agent -> "Escalation needed: " \o issue

\* the stage after `agent` in handle_complex_escalation ("" after the last)
NextStage(agent) ==
    CASE agent = routing_agent -> support_agent
      [] agent = support_agent -> escalation_agent
      [] agent = escalation_agent -> ""

NoResult == [pending |-> TRUE]

NewCall(kind, query) ==
    [kind |-> kind, query |-> query,
     inv |-> [a \in Agents |-> NoInvocation],
     ticket |-> "none", status |-> "running", result |-> NoResult]

\* process_customer_request up to the await of asyncio.gather, and the first
\* step of each task gather starts, the router's before the support's: the
\* call, and the memory they leave
process_customer_request_memory(world, customer_query) ==
    process_query_begin_memory(
        process_query_begin_memory(world, routing_agent, customer_query),
        support_agent, customer_query)
process_customer_request(world, customer_query) ==
    [NewCall("parallel", customer_query) EXCEPT
        !.inv[routing_agent] = process_query_begin(world, customer_query),
        !.inv[support_agent] =
            process_query_begin(
                process_query_begin_memory(world, routing_agent, customer_query),
                customer_query)]

\* one slot of the list asyncio.gather(..., return_exceptions=True) returns
GatherSlot(invocation) == [exception |-> invocation.raised, value |-> invocation.value]

\* as process_customer_request_return, gather being called without
\* return_exceptions=True: the first exception leaves process_customer_request
process_customer_request_return_raises(call, now) ==
    IF call.inv[routing_agent].raised \/ call.inv[support_agent].raised
    THEN [call EXCEPT
             !.status = "raised",
             !.result = [error |-> IF call.inv[routing_agent].raised
                                   THEN call.inv[routing_agent].value
                                   ELSE call.inv[support_agent].value,
                         stage |-> "gather"]]
    ELSE [call EXCEPT
             !.status = "returned",
             !.result = [session_id |-> system_session_id,
                         routing_response |-> GatherSlot(call.inv[routing_agent]),
                         support_response |-> GatherSlot(call.inv[support_agent]),
                         timestamp |-> now]]

\* as process_customer_request_return, the slots being filled in the order in
\* which the two tasks completed (asyncio.as_completed instead of gather)
process_customer_request_return_as_completed(call, now) ==
    LET router == call.inv[routing_agent]
        support == call.inv[support_agent]
        supportFirst == support.pc = "returned" /\ router.pc = "returned"
                        /\ support.rts < router.rts
    IN  [call EXCEPT
            !.status = "returned",
            !.result = [session_id |-> system_session_id,
                        routing_response |->
                            GatherSlot(IF supportFirst THEN support ELSE router),
                        support_response |->
                            GatherSlot(IF supportFirst THEN router ELSE support),
                        timestamp |-> now]]

\* process_customer_request from the return of asyncio.gather
process_customer_request_return(call, now) ==
    [call EXCEPT
        !.status = "returned",
        !.result = [session_id |-> system_session_id,
                    routing_response |-> GatherSlot(call.inv[routing_agent]),
                    support_response |-> GatherSlot(call.inv[support_agent]),
                    timestamp |-> now]]

\* as handle_complex_escalation, the router's and the support agent's stages
\* being started together
handle_complex_escalation_gathers(world, issue) ==
    [NewCall("sequential", issue) EXCEPT
        !.inv[routing_agent] =
            process_query_begin(world, StageQuery(routing_agent, issue)),
        !.inv[support_agent] =
            process_query_begin(world, StageQuery(support_agent, issue))]

\* handle_complex_escalation up to its first await, inside the router's
\* process_query
handle_complex_escalation_memory(world, issue) ==
    process_query_begin_memory(world, routing_agent, StageQuery(routing_agent, issue))
handle_complex_escalation(world, issue) ==
    [NewCall("sequential", issue) EXCEPT
        !.inv[routing_agent] =
            process_query_begin(world, StageQuery(routing_agent, issue))]

\* as handle_complex_escalation_continue, the stage being wrapped in a
\* try/except that logs the error and goes on
handle_complex_escalation_continue_swallows(world, call, agent) ==
    IF NextStage(agent) = ""
    THEN [call EXCEPT !.ticket = "awaiting"]
    ELSE [call EXCEPT !.inv[NextStage(agent)] =
             process_query_begin(world, StageQuery(NextStage(agent), call.query))]

\* handle_complex_escalation after the stage of `agent` has ended, up to its
\* next await: an exception leaves the coroutine, a response starts the next
\* stage, and after the last stage create_ticket is called
handle_complex_escalation_continue(world, call, agent) ==
    IF call.inv[agent].raised
    THEN [call EXCEPT !.status = "raised",
                      !.result = [error |-> call.inv[agent].value, stage |-> agent]]
    ELSE IF NextStage(agent) = ""
    THEN [call EXCEPT !.ticket = "awaiting"]
    ELSE [call EXCEPT !.inv[NextStage(agent)] =
             process_query_begin(world, StageQuery(NextStage(agent), call.query))]
handle_complex_escalation_continue_memory(world, call, agent) ==
    IF call.inv[agent].raised \/ NextStage(agent) = ""
    THEN world
    ELSE process_query_begin_memory(world, NextStage(agent),
                                    StageQuery(NextStage(agent), call.query))

\* handle_complex_escalation from the end of the await of create_ticket
handle_complex_escalation_return(call, id, outcome) ==
    IF outcome = "fail"
    THEN [call EXCEPT !.ticket = "raised", !.status = "raised",
                      !.result = [error |-> "ToolFailure", stage |-> "create_ticket"]]
    ELSE [call EXCEPT
             !.ticket = "created", !.status = "returned",
             !.result = [routing |-> call.inv[routing_agent].value,
                         support |-> call.inv[support_agent].value,
                         escalation |-> call.inv[escalation_agent].value,
                         ticket |-> [ticket_id |-> id, status |-> "created"]]]

\* what a protocol call hands to its caller: the call with its result or error
Returned(op, call) == [op |-> op, call |-> call]

(***************************************************************************)
(* Spec: the steps of the asyncio event loop.  A coroutine runs from one   *)
(* await of a tool call to the next without giving the loop back, so each  *)
(* action is one such run.                                                 *)
(***************************************************************************)
Now == World(memory_store, clock)

\* a call is made by the first client that is free
FirstFree(client) ==
    /\ calls[client] = NoRequest
    /\ \A other \in Clients : other < client => calls[other] # NoRequest

\* a client calls process_customer_request; both tasks run to their await
StartParallel(client, customer_query) ==
    /\ FirstFree(client)
    /\ started < MaxCalls
    /\ started' = started + 1
    /\ calls' = [calls EXCEPT ![client] = process_customer_request(Now, customer_query)]
    /\ memory_store' = process_customer_request_memory(Now, customer_query).store
    /\ clock' = process_customer_request_memory(Now, customer_query).clock
    /\ ret' = NoCall
    /\ UNCHANGED <<state, agent_state, failed, spc, threadVars>>

\* a client calls handle_complex_escalation; it runs to the router's await
StartSequential(client, issue) ==
    /\ FirstFree(client)
    /\ started < MaxCalls
    /\ started' = started + 1
    /\ calls' = [calls EXCEPT ![client] = handle_complex_escalation(Now, issue)]
    /\ memory_store' = handle_complex_escalation_memory(Now, issue).store
    /\ clock' = handle_complex_escalation_memory(Now, issue).clock
    /\ ret' = NoCall
    /\ UNCHANGED <<state, agent_state, failed, spc, threadVars>>

\* the tool call awaited by a task of gather ends: the task runs to its end
TaskResumes(client, agent, outcome) ==
    /\ calls[client] # NoRequest
    /\ calls[client].kind = "parallel"
    /\ calls[client].inv[agent].pc = "awaiting"
    /\ LET finished == process_query_finish(Now, agent, calls[client].inv[agent], outcome)
           after == process_query_finish_memory(Now, agent, finished)
       IN  /\ calls' = [calls EXCEPT ![client].inv[agent] = finished]
           /\ failed' = [failed EXCEPT ![agent] = @ + Raised(finished)]
           /\ memory_store' = after.store
           /\ clock' = after.clock
    /\ ret' = NoCall
    /\ UNCHANGED <<state, agent_state, started, spc, threadVars>>

\* as ParallelReturns, process_customer_request being resumed only when both
\* tasks have returned a response
ParallelReturns_needs_responses(client) ==
    /\ calls[client] # NoRequest
    /\ calls[client].kind = "parallel"
    /\ calls[client].inv[routing_agent].pc = "returned"
    /\ calls[client].inv[support_agent].pc = "returned"
    /\ ret' = Returned("process_customer_request",
                       process_customer_request_return(calls[client], clock))
    /\ calls' = [calls EXCEPT ![client] = NoRequest]
    /\ UNCHANGED <<memory_store, clock, state, agent_state, started, failed, spc, threadVars>>

\* both tasks of gather have ended: process_customer_request is resumed and
\* returns its envelope
ParallelReturns(client) ==
    /\ calls[client] # NoRequest
    /\ calls[client].kind = "parallel"
    /\ Finished(calls[client].inv[routing_agent])
    /\ Finished(calls[client].inv[support_agent])
    /\ ret' = Returned("process_customer_request",
                       process_customer_request_return(calls[client], clock))
    /\ calls' = [calls EXCEPT ![client] = NoRequest]
    /\ UNCHANGED <<memory_store, clock, state, agent_state, started, failed, spc, threadVars>>

\* the tool call awaited by a stage of the pipeline ends: process_query runs to
\* its end and handle_complex_escalation goes on to its next await, or raises
StageResumes(client, agent, outcome) ==
    /\ calls[client] # NoRequest
    /\ calls[client].kind = "sequential"
    /\ calls[client].inv[agent].pc = "awaiting"
    /\ LET finished == process_query_finish(Now, agent, calls[client].inv[agent], outcome)
           after == process_query_finish_memory(Now, agent, finished)
           ended == [calls[client] EXCEPT !.inv[agent] = finished]
           call == handle_complex_escalation_continue(after, ended, agent)
           final == handle_complex_escalation_continue_memory(after, ended, agent)
       IN  /\ memory_store' = final.store
           /\ clock' = final.clock
           /\ failed' = [failed EXCEPT ![agent] = @ + Raised(finished)]
           /\ IF call.status = "raised"
              THEN /\ ret' = Returned("handle_complex_escalation", call)
                   /\ calls' = [calls EXCEPT ![client] = NoRequest]
              ELSE /\ ret' = NoCall
                   /\ calls' = [calls EXCEPT ![client] = call]
    /\ UNCHANGED <<state, agent_state, started, spc, threadVars>>

\* the awaited create_ticket ends: handle_complex_escalation returns its
\* result, or the ToolFailure leaves it
TicketCompletes(client, outcome) ==
    /\ calls[client] # NoRequest
    /\ calls[client].ticket = "awaiting"
    /\ ret' = Returned("handle_complex_escalation",
                       handle_complex_escalation_return(calls[client], started, outcome))
    /\ calls' = [calls EXCEPT ![client] = NoRequest]
    /\ UNCHANGED <<memory_store, clock, state, agent_state, started, failed, spc, threadVars>>

(***************************************************************************)
(* Pause, resume and metrics                                               *)
(***************************************************************************)
\* as pause_execution, the state being toggled instead of set
pause_execution_toggles(states, agent) ==
    [states EXCEPT ![agent] = IF @ = PAUSED THEN ACTIVE ELSE PAUSED]

\* Agent.pause_execution and Agent.resume_execution
pause_execution(states, agent) == [states EXCEPT ![agent] = PAUSED]
resume_execution(states, agent) == [states EXCEPT ![agent] = ACTIVE]

\* pause_session: the awaited pause_execution never suspends, so the whole
\* method is one run
pause_session_agents(states) ==
    pause_execution(
        pause_execution(
            pause_execution(states, AgentOrder[1]),
            AgentOrder[2]),
        AgentOrder[3])
PauseSession ==
    /\ state' = PAUSED
    /\ agent_state' = pause_session_agents(agent_state)
    /\ ret' = [op |-> "pause_session"]
    /\ UNCHANGED <<memory_store, clock, calls, started, failed, spc, threadVars>>

\* as resume_session_agents, the loop stopping one agent short
resume_session_agents_short(states) ==
    resume_execution(resume_execution(states, AgentOrder[1]), AgentOrder[2])

\* resume_session
resume_session_agents(states) ==
    resume_execution(
        resume_execution(
            resume_execution(states, AgentOrder[1]),
            AgentOrder[2]),
        AgentOrder[3])
ResumeSession ==
    /\ state' = ACTIVE
    /\ agent_state' = resume_session_agents(agent_state)
    /\ ret' = [op |-> "resume_session"]
    /\ UNCHANGED <<memory_store, clock, calls, started, failed, spc, threadVars>>


\* as get_session_metrics, the context being compacted for the support
\* agent's session
get_session_metrics_of_support(store, system_state, now) ==
    [session_id |-> system_session_id,
     state |-> system_state,
     memory_metrics |-> compact_context(store, session_id_of(support_agent)),
     timestamp |-> now]

\* get_session_metrics: the dict returned
get_session_metrics(store, system_state, now) ==
    [session_id |-> system_session_id,
     state |-> system_state,
     memory_metrics |-> compact_context(store, session_id_of(routing_agent)),
     timestamp |-> now]

GetSessionMetrics ==
    /\ ret' = [op |-> "get_session_metrics",
               value |-> get_session_metrics(memory_store, state, clock)]
    /\ UNCHANGED <<memory_store, clock, systemVars, threadVars>>

\* the session ids of the system
SystemSessions == {session_id_of(a) : a \in Agents} \cup {system_session_id}

Next ==
    \/ \E client \in Clients : StartParallel(client, QueryOf(client))
    \/ \E client \in Clients : StartSequential(client, QueryOf(client))
    \/ \E client \in Clients, a \in Agents, o \in ToolOutcomes : TaskResumes(client, a, o)
    \/ \E client \in Clients : ParallelReturns(client)
    \/ \E client \in Clients, a \in Agents, o \in ToolOutcomes : StageResumes(client, a, o)
    \/ \E client \in Clients, o \in {"hit", "fail"} : TicketCompletes(client, o)
    \/ PauseSession
    \/ ResumeSession
    \/ GetSessionMetrics

Spec == Init /\ [][Next]_vars

\* SpecLive: Spec with the scheduling of the event loop, which runs every
\* coroutine that is ready, and with every search_knowledge_base call started
\* by a task of gather coming to an end, by a result or by an exception
SpecLive ==
    /\ Spec
    /\ \A client \in Clients : WF_vars(ParallelReturns(client))
    /\ \A client \in Clients, agent \in {routing_agent, support_agent} :
          WF_vars(\E outcome \in ToolOutcomes : TaskResumes(client, agent, outcome))

(***************************************************************************)
(* Claims about the orchestrator (checked under Spec)                      *)
(***************************************************************************)
IsPrefix(a, b) == Len(a) <= Len(b) /\ SubSeq(b, 1, Len(a)) = a

\* the log of the agent holds, in this order, the query record and the
\* response record of the invocation
WroteBothRecords(agent, invocation) ==
    LET log == LogOf(session_id_of(agent))
        query == DictWith(QueryInteraction(agent, invocation.query),
                          "timestamp", invocation.qts)
        response == DictWith(ResponseInteraction(agent, invocation.value),
                             "timestamp", invocation.rts)
    IN  \E j \in 1..Len(log) :
           /\ log[j] = query
           /\ \E k \in (j + 1)..Len(log) : log[k] = response

ParallelReturned == ret.op = "process_customer_request"
SequentialEnded == ret.op = "handle_complex_escalation"

\* the slot of the envelope holds the outcome of the agent's invocation: its
\* response, for which both records are in the agent's log, or the error that
\* left it
SlotHoldsOutcome(slot, agent, invocation) ==
    /\ Finished(invocation)
    /\ slot.exception = invocation.raised
    /\ slot.value = invocation.value
    /\ invocation.raised => invocation.value \in {"ToolFailure", "IndexError"}
    /\ ~invocation.raised =>
          /\ invocation.value =
                "[" \o role(agent) \o "] Found response: Result for " \o invocation.query
          /\ WroteBothRecords(agent, invocation)

\* C1: when process_customer_request ends it has not raised, whatever its two
\* process_query invocations did: routing_response is the router's response
\* or the error captured from it, support_response is the support agent's
\* response or captured error, and an invocation that did not fail ran to its
\* end and wrote both of its records although the other one failed.
C1_PartialFailureIsolation ==
    ParallelReturned =>
        /\ ret.call.status = "returned"
        /\ SlotHoldsOutcome(ret.call.result.routing_response, routing_agent,
                            ret.call.inv[routing_agent])
        /\ SlotHoldsOutcome(ret.call.result.support_response, support_agent,
                            ret.call.inv[support_agent])

\* the router succeeded and the support agent's tool call raised
C1_Witness ==
    /\ ParallelReturned
    /\ ret.call.status = "returned"
    /\ ~ret.call.result.routing_response.exception
    /\ ret.call.result.support_response.exception
    /\ ret.call.result.support_response.value = "ToolFailure"

\* the stages of the pipeline before and after a stage
StagesBefore(agent) ==
    CASE agent = routing_agent -> {}
      [] agent = support_agent -> {routing_agent}
      [] agent = escalation_agent -> {routing_agent, support_agent}
StagesAfter(agent) == Agents \ (StagesBefore(agent) \cup {agent})

\* the call raised the error of its stage `agent`: nothing after it was started
RaisedAt(call, agent) ==
    /\ call.status = "raised"
    /\ call.inv[agent].pc = "raised"
    /\ call.result.error = call.inv[agent].value
    /\ \A a \in StagesBefore(agent) : call.inv[a].pc = "returned"
    /\ \A a \in StagesAfter(agent) : call.inv[a] = NoInvocation
    /\ call.ticket = "none"

\* the call returned a result with its four fields
CompleteResult(call) ==
    /\ call.status = "returned"
    /\ \A a \in Agents : call.inv[a].pc = "returned"
    /\ call.ticket = "created"
    /\ DOMAIN call.result = {"routing", "support", "escalation", "ticket"}
    /\ call.result.routing = call.inv[routing_agent].value
    /\ call.result.support = call.inv[support_agent].value
    /\ call.result.escalation = call.inv[escalation_agent].value
    /\ call.result.ticket.status = "created"

\* create_ticket itself raised, after the three stages returned
RaisedAtTicket(call) ==
    /\ call.status = "raised"
    /\ \A a \in Agents : call.inv[a].pc = "returned"
    /\ call.ticket = "raised"
    /\ call.result.error = "ToolFailure"

\* C2: handle_complex_escalation ends either with a result holding all four
\* fields or with an error; when a stage (router, support, escalation) raises,
\* the call raises that stage's error, no later stage has been started and
\* create_ticket has not been called.  While the call runs, one stage at most
\* is awaiting its tool, the stages before it have returned and create_ticket
\* is called only after all three have.
C2_SequentialFailFast ==
    /\ SequentialEnded =>
          \/ CompleteResult(ret.call)
          \/ RaisedAtTicket(ret.call)
          \/ \E agent \in Agents : RaisedAt(ret.call, agent)
    /\ \A client \in Clients :
          (calls[client] # NoRequest /\ calls[client].kind = "sequential") =>
             /\ \A a \in Agents :
                   /\ calls[client].inv[a].pc \in {"none", "awaiting", "returned"}
                   /\ calls[client].inv[a].pc # "none" =>
                         \A b \in StagesBefore(a) : calls[client].inv[b].pc = "returned"
             /\ calls[client].ticket \in {"none", "awaiting"}
             /\ calls[client].ticket = "awaiting" =>
                   \A a \in Agents : calls[client].inv[a].pc = "returned"

\* the support stage raised after the router's stage had returned
C2_Witness ==
    /\ SequentialEnded
    /\ RaisedAt(ret.call, support_agent)
    /\ ret.call.inv[routing_agent].pc = "returned"

\* this step starts an invocation of process_query on the agent
Begins(agent) ==
    \E client \in Clients :
        /\ calls'[client] # NoRequest
        /\ calls'[client].inv[agent].pc = "awaiting"
        /\ \/ calls[client] = NoRequest
           \/ calls[client].inv[agent].pc = "none"

\* C3: only an ACTIVE entity accepts new work: a protocol call is started only
\* while the orchestrator is ACTIVE, and process_query is started (its query
\* record appended, its tool called) only on an agent that is ACTIVE.
C3_OnlyActiveAcceptsWork ==
    [][ /\ started' # started => state = ACTIVE
        /\ \A agent \in Agents : Begins(agent) => agent_state[agent] = ACTIVE
      ]_vars

AllInState(s) == state = s /\ \A a \in Agents : agent_state[a] = s

\* C8: pause_session and resume_session change no session's log, and
\* resume_session after pause_session leaves the orchestrator and the three
\* agents ACTIVE.
C8_PauseResumeNeutral ==
    [][ /\ (ret'.op \in {"pause_session", "resume_session"}
            \/ state' # state \/ agent_state' # agent_state)
           => memory_store' = memory_store
        /\ (ret.op = "pause_session" /\ ret'.op = "resume_session")
           => AllInState(ACTIVE)'
        /\ (state = PAUSED /\ state' = ACTIVE) => AllInState(ACTIVE)'
      ]_vars

\* resume_session has returned with entries in the logs, one call in flight
C8_Witness ==
    /\ ret.op = "resume_session"
    /\ AllInState(ACTIVE)
    /\ \E a \in Agents : Len(LogOf(session_id_of(a))) >= 2
    /\ \E client \in Clients : calls[client] # NoRequest

\* C9: the logs are append-only: in every step every session keeps its slot
\* and its log before the step is a prefix of its log after the step.
C9_AppendOnly ==
    [][ \A s \in DOMAIN memory_store :
           /\ s \in DOMAIN memory_store'
           /\ IsPrefix(memory_store[s], memory_store'[s])
      ]_vars

\* a log to which two calls have appended
C9_Witness ==
    \E a \in Agents : Len(LogOf(session_id_of(a))) >= 4

\* the log of the agent holds the response record the invocation wrote
ResponseRecorded(agent, invocation) ==
    LET log == LogOf(session_id_of(agent))
        response == DictWith(ResponseInteraction(agent, invocation.value),
                             "timestamp", invocation.rts)
    IN  \E k \in 1..Len(log) : log[k] = response

\* C11: in every envelope process_customer_request returns, whichever of the
\* two invocations completed first, routing_response is the slot of the
\* router's invocation and support_response the slot of the support agent's:
\* a response in a slot carries the role of that slot's agent and is the
\* response recorded in that agent's log, an error is the one that agent's
\* invocation raised.
C11_SlotOrder ==
    ParallelReturned =>
        /\ ret.call.result.routing_response = GatherSlot(ret.call.inv[routing_agent])
        /\ ret.call.result.support_response = GatherSlot(ret.call.inv[support_agent])
        /\ ~ret.call.result.routing_response.exception =>
              /\ ret.call.result.routing_response.value =
                    FormatResponse(routing_agent, search_knowledge_base(ret.call.query))
              /\ ResponseRecorded(routing_agent, ret.call.inv[routing_agent])
        /\ ~ret.call.result.support_response.exception =>
              /\ ret.call.result.support_response.value =
                    FormatResponse(support_agent, search_knowledge_base(ret.call.query))
              /\ ResponseRecorded(support_agent, ret.call.inv[support_agent])

\* both invocations returned, the support agent's before the router's
C11_Witness ==
    /\ ParallelReturned
    /\ ret.call.inv[routing_agent].pc = "returned"
    /\ ret.call.inv[support_agent].pc = "returned"
    /\ ret.call.inv[support_agent].rts < ret.call.inv[routing_agent].rts

\* the client's call of process_customer_request is running
ParallelRunning(client) ==
    calls[client] # NoRequest /\ calls[client].kind = "parallel"

\* the client's call of process_customer_request has just returned an
\* envelope with its four fields
EnvelopeReturned(client) ==
    /\ ParallelReturned
    /\ calls[client] = NoRequest
    /\ ret.call.query = QueryOf(client)
    /\ ret.call.status = "returned"
    /\ DOMAIN ret.call.result =
          {"session_id", "routing_response", "support_response", "timestamp"}

\* C12: every search_knowledge_base call started by process_customer_request
\* coming to an end (SpecLive), every call of process_customer_request
\* eventually returns an envelope holding session_id, routing_response,
\* support_response and timestamp.
C12_ParallelReturnsEnvelope ==
    \A client \in Clients : ParallelRunning(client) ~> EnvelopeReturned(client)

\* an envelope returned although both tool calls raised
C12_Witness ==
    /\ \E client \in Clients : EnvelopeReturned(client)
    /\ ret.call.result.routing_response.exception
    /\ ret.call.result.support_response.exception

\* the stage of the agent has returned and both of its records are in the log
StageCompleted(call, agent) ==
    /\ call.inv[agent].pc = "returned"
    /\ WroteBothRecords(agent, call.inv[agent])

\* every stage that has started did so after each stage before it had
\* completed and written its response record, and create_ticket was called
\* after all three stages
StagesInOrder(call) ==
    /\ \A agent \in Agents :
          call.inv[agent].pc # "none" =>
             \A before \in StagesBefore(agent) :
                /\ StageCompleted(call, before)
                /\ call.inv[before].query = StageQuery(before, call.query)
                /\ call.inv[before].rts < call.inv[agent].qts
    /\ call.ticket # "none" => \A agent \in Agents : StageCompleted(call, agent)

\* C13: within one call of handle_complex_escalation the stages run in the
\* order router, support, escalation, create_ticket, and a stage performs its
\* first action (the append of its query record) only after the stage before
\* it has returned with its query record and its response record in the log.
C13_SequentialTotalOrder ==
    /\ \A client \in Clients :
          (calls[client] # NoRequest /\ calls[client].kind = "sequential")
             => StagesInOrder(calls[client])
    /\ SequentialEnded => StagesInOrder(ret.call)

\* create_ticket is awaited while another call is in flight
C13_Witness ==
    \E client, other \in Clients :
        /\ calls[client] # NoRequest
        /\ calls[client].kind = "sequential"
        /\ calls[client].ticket = "awaiting"
        /\ calls[other] # NoRequest
        /\ other # client

\* the invocations of process_query the state holds: those of the calls in
\* flight and those of the call that has just ended
InvocationsOf(agent) ==
    {calls[client].inv[agent] : client \in {c \in Clients : calls[c] # NoRequest}}
    \cup (IF ParallelReturned \/ SequentialEnded THEN {ret.call.inv[agent]} ELSE {})

\* the log of the agent holds the query record the invocation wrote
QueryRecorded(agent, invocation) ==
    LET log == LogOf(session_id_of(agent))
        query == DictWith(QueryInteraction(agent, invocation.query),
                          "timestamp", invocation.qts)
    IN  \E j \in 1..Len(log) : log[j] = query

\* the log of the agent holds a response record to the invocation's query
\* written after its query record
ResponseAfterQuery(agent, invocation) ==
    LET log == LogOf(session_id_of(agent))
        response == FormatResponse(agent, search_knowledge_base(invocation.query))
    IN  \E k \in 1..Len(log) :
           /\ log[k].timestamp > invocation.qts
           /\ "response" \in DOMAIN log[k]
           /\ log[k].response = response

\* C14: for every invocation of process_query, however the event loop
\* interleaves it with invocations on other agents and on the same agent:
\* while its tool call is awaited, and after the tool call raised, its query
\* record is in the agent's log and no response record to it is; once the
\* invocation has returned, its query record precedes its response record in
\* the log.
C14_QueryBeforeResponse ==
    \A agent \in Agents : \A invocation \in InvocationsOf(agent) :
        /\ invocation.pc # "none" => QueryRecorded(agent, invocation)
        /\ invocation.pc \in {"awaiting", "raised"} =>
              ~ResponseAfterQuery(agent, invocation)
        /\ invocation.pc = "returned" =>
              /\ invocation.qts < invocation.rts
              /\ WroteBothRecords(agent, invocation)

\* two invocations on the router interleave: the one started first is still
\* awaiting its tool call when the one started second has returned
C14_Witness ==
    \E first, second \in Clients :
        /\ calls[first] # NoRequest
        /\ calls[second] # NoRequest
        /\ calls[first].inv[routing_agent].pc = "awaiting"
        /\ calls[second].inv[routing_agent].pc = "returned"
        /\ calls[first].inv[routing_agent].qts < calls[second].inv[routing_agent].qts

\* the entity goes from one state to another in this step only by a pause
\* from ACTIVE or by a resume from PAUSED
LegalTransition(before, after) ==
    before # after =>
        \/ before = ACTIVE /\ after = PAUSED /\ ret'.op = "pause_session"
        \/ before = PAUSED /\ after = ACTIVE /\ ret'.op = "resume_session"

\* C16: the orchestrator and every agent start ACTIVE; whatever pause and
\* resume calls are made and whatever the protocols do, tool calls that raise
\* included, each of them is ACTIVE or PAUSED, never COMPLETED or FAILED; a
\* state changes only from ACTIVE to PAUSED by a pause and from PAUSED to
\* ACTIVE by a resume, and a pause leaves a PAUSED entity PAUSED, a resume an
\* ACTIVE entity ACTIVE.
C16_ReachableSessionStates ==
    /\ AllInState(ACTIVE)
    /\ [](/\ state \in {ACTIVE, PAUSED}
          /\ \A agent \in Agents : agent_state[agent] \in {ACTIVE, PAUSED})
    /\ [][ /\ LegalTransition(state, state')
           /\ \A agent \in Agents :
                 LegalTransition(agent_state[agent], agent_state'[agent])
           /\ ret'.op = "pause_session" => AllInState(PAUSED)'
           /\ ret'.op = "resume_session" => AllInState(ACTIVE)'
         ]_vars

\* a call has raised the error of a tool while all four were PAUSED: they
\* still are
C16_Witness ==
    /\ AllInState(PAUSED)
    /\ SequentialEnded
    /\ ret.call.status = "raised"

\* the store cut down to the router's session
RouterLogOnly ==
    [s \in DOMAIN memory_store \cap {session_id_of(routing_agent)} |-> memory_store[s]]

\* C17: a call of get_session_metrics changes neither the orchestrator's
\* state nor an agent's state nor the memory store; the dict it returns
\* holds the orchestrator's session id and its current state, and its
\* memory_metrics is compact_context of the router's session, a value that
\* depends on the router's log alone, whatever the support and escalation
\* agents have written.
C17_MetricsReadOnly ==
    [][ ret'.op = "get_session_metrics" =>
           /\ state' = state
           /\ agent_state' = agent_state
           /\ memory_store' = memory_store
           /\ calls' = calls
           /\ ret'.value.session_id = system_session_id
           /\ ret'.value.state = state
           /\ ret'.value.memory_metrics =
                 compact_context(memory_store, session_id_of(routing_agent))
           /\ ret'.value.memory_metrics =
                 compact_context(RouterLogOnly, session_id_of(routing_agent))
      ]_vars

\* metrics read while PAUSED: the router's log holds two records, the
\* support and escalation agents have written too
C17_Witness ==
    /\ ret.op = "get_session_metrics"
    /\ ret.value.state = PAUSED
    /\ Len(LogOf(session_id_of(routing_agent))) = 2
    /\ ret.value.memory_metrics.interaction_count = 2
    /\ Len(LogOf(session_id_of(support_agent))) >= 2
    /\ Len(LogOf(session_id_of(escalation_agent))) >= 1

RecordCount(agent, kind) ==
    LET log == LogOf(session_id_of(agent))
    IN  Cardinality({k \in 1..Len(log) : kind \in DOMAIN log[k]})

\* the invocations on the agent whose tool call is awaited
InFlight(agent) ==
    Cardinality({client \in Clients :
                    /\ calls[client] # NoRequest
                    /\ calls[client].inv[agent].pc = "awaiting"})

\* C19: nothing is rolled back: an invocation of process_query that raised
\* has left its query record in the agent's log and no response record, so
\* every agent's log holds at least as many query records as response
\* records, and the difference is the number of the agent's invocations that
\* are in flight or have failed.
C19_NoRollback ==
    \A agent \in Agents :
        /\ \A invocation \in InvocationsOf(agent) :
              invocation.pc = "raised" =>
                 /\ QueryRecorded(agent, invocation)
                 /\ invocation.rts = 0
        /\ LET queries == RecordCount(agent, "query")
               responses == RecordCount(agent, "response")
           IN  /\ queries >= responses
               /\ queries - responses = InFlight(agent) + failed[agent]

\* on the router one invocation has returned and one has failed while no
\* call is in flight: one more query record than response records
C19_Witness ==
    /\ failed[routing_agent] = 1
    /\ InFlight(routing_agent) = 0
    /\ RecordCount(routing_agent, "response") = 1
    /\ RecordCount(routing_agent, "query") = 2

\* C20: the sessions are isolated: every record in the log keyed by an
\* agent's session id was appended by an invocation of process_query on that
\* agent (it carries that agent's id), so an invocation on one agent leaves
\* the logs of the other sessions as they were; the keys of the memory store
\* are session ids of the three agents, and nothing is stored under the
\* orchestrator's own session id.
C20_SessionIsolation ==
    /\ DOMAIN memory_store \subseteq {session_id_of(agent) : agent \in Agents}
    /\ system_session_id \notin DOMAIN memory_store
    /\ \A agent, other \in Agents :
          agent # other => session_id_of(agent) # session_id_of(other)
    /\ \A agent \in Agents :
          LET log == LogOf(session_id_of(agent))
          IN  \A k \in 1..Len(log) : log[k].agent = agent

\* the three agents have each written to their own session
C20_Witness ==
    /\ DOMAIN memory_store = {session_id_of(agent) : agent \in Agents}
    /\ \A agent \in Agents : Len(LogOf(session_id_of(agent))) >= 1
    /\ Len(LogOf(session_id_of(routing_agent))) >= 3

(***************************************************************************)
(* SpecThreads: store_interaction called from OS threads.  The interpreter *)
(* may switch threads between any two bytecodes, so a call is four steps:  *)
(* the membership test, the binding of a new list, the load of the list    *)
(* and the append to the list that was loaded.                             *)
(***************************************************************************)
\* an identity no list object in use has
FreshId ==
    LET used == {slot_id[s] : s \in ThreadSessions} \cup {tref[t] : t \in Threads}
    IN  1 + CHOOSE m \in used : \A n \in used : n <= m

CallsMade == clock - 1 + Cardinality({t \in Threads : tpc[t] # "idle"})

\* a thread enters store_interaction(session_id, ...)
ThreadCall(t, session_id) ==
    /\ tpc[t] = "idle"
    /\ CallsMade < MaxThreadCalls
    /\ tpc' = [tpc EXCEPT ![t] = "test"]
    /\ targ' = [targ EXCEPT ![t] = session_id]
    /\ UNCHANGED <<memory_store, clock, ret, systemVars, tref, slot_id, completed>>

\* line 53: if session_id not in self.memory_store
ThreadTest(t) ==
    /\ tpc[t] = "test"
    /\ tpc' = [tpc EXCEPT ![t] =
                  IF targ[t] \notin DOMAIN memory_store THEN "bind" ELSE "load"]
    /\ UNCHANGED <<memory_store, clock, ret, systemVars, targ, tref, slot_id, completed>>

\* line 54: self.memory_store[session_id] = []
ThreadBind(t) ==
    /\ tpc[t] = "bind"
    /\ memory_store' =
          [s \in (DOMAIN memory_store) \cup {targ[t]} |->
              IF s = targ[t] THEN <<>> ELSE memory_store[s]]
    /\ slot_id' = [slot_id EXCEPT ![targ[t]] = FreshId]
    /\ tpc' = [tpc EXCEPT ![t] = "load"]
    /\ UNCHANGED <<clock, ret, systemVars, targ, tref, completed>>

\* line 55: self.memory_store[session_id] is loaded
ThreadLoad(t) ==
    /\ tpc[t] = "load"
    /\ tref' = [tref EXCEPT ![t] = slot_id[targ[t]]]
    /\ tpc' = [tpc EXCEPT ![t] = "append"]
    /\ UNCHANGED <<memory_store, clock, ret, systemVars, targ, slot_id, completed>>

\* lines 55-58: .append({...}) on the list that was loaded, which is in the
\* store only if the slot still holds it; the call returns
ThreadAppend(t) ==
    /\ tpc[t] = "append"
    /\ memory_store' =
          IF tref[t] = slot_id[targ[t]]
          THEN [memory_store EXCEPT ![targ[t]] =
                   Append(@, DictWith(Interactions[((t - 1) % Len(Interactions)) + 1],
                                      "timestamp", clock))]
          ELSE memory_store
    /\ clock' = clock + 1
    /\ completed' = [completed EXCEPT ![targ[t]] = @ + 1]
    /\ tpc' = [tpc EXCEPT ![t] = "idle"]
    /\ tref' = [tref EXCEPT ![t] = 0]
    /\ UNCHANGED <<ret, systemVars, targ, slot_id>>

NextThreads ==
    \/ \E t \in Threads, s \in ThreadSessions : ThreadCall(t, s)
    \/ \E t \in Threads : ThreadTest(t)
    \/ \E t \in Threads : ThreadBind(t)
    \/ \E t \in Threads : ThreadLoad(t)
    \/ \E t \in Threads : ThreadAppend(t)

SpecThreads == Init /\ [][NextThreads]_vars

\* C10: no append is lost: under concurrent callers, on the same or on
\* different sessions, a session's log holds exactly one entry for every
\* store_interaction call on it that has returned, also when its slot was
\* created by concurrent first writers.
C10_NoLostAppend ==
    \A s \in ThreadSessions : Len(LogOf(s)) = completed[s]

(***************************************************************************)
(* SpecSession: pause_session and resume_session statement by statement,   *)
(* from every configuration direct calls of the agents' pause_execution    *)
(* and resume_execution can leave.  The awaited methods never suspend, so  *)
(* one call runs from its first statement to its return before another     *)
(* call starts.                                                            *)
(***************************************************************************)
\* the states of the orchestrator and of its agents at one point of a run
SessionConfig(system_state, states) == [state |-> system_state, agents |-> states]

\* the statements of pause_session and resume_session that set a state: the
\* assignment to self.state and one pass of the loop for each agent
SessionSteps == Len(AgentOrder) + 1

\* as session_step, the loop over the agents coming before the assignment to
\* self.state
session_step_agents_first(config, at, target) ==
    IF at = SessionSteps
    THEN SessionConfig(target, config.agents)
    ELSE SessionConfig(config.state, [config.agents EXCEPT ![AgentOrder[at]] = target])

\* the statement number `at` of pause_session (target PAUSED) or of
\* resume_session (target ACTIVE): line 208 (215) first, then the passes of
\* the loop of lines 209-210 (216-217) over self.agents, a dict filled in the
\* order of AgentOrder
session_step(config, at, target) ==
    IF at = 1
    THEN SessionConfig(target, config.agents)
    ELSE SessionConfig(config.state,
                       IF target = PAUSED
                       THEN pause_execution(config.agents, AgentOrder[at - 1])
                       ELSE resume_execution(config.agents, AgentOrder[at - 1]))

\* the state a session call sets: PAUSED for pause_session, ACTIVE for
\* resume_session
TargetOf(op) == IF op = "pause_session" THEN PAUSED ELSE ACTIVE

\* pause_session or resume_session is called
CallSession(op) ==
    /\ spc = NoSessionCall
    /\ spc' = [op |-> op, at |-> 1, from |-> SessionConfig(state, agent_state)]
    /\ ret' = NoCall
    /\ UNCHANGED <<memory_store, clock, state, agent_state, calls, started, failed,
                   threadVars>>

\* the call runs its next statement
SessionStep ==
    /\ spc # NoSessionCall
    /\ spc.at <= SessionSteps
    /\ LET next == session_step(SessionConfig(state, agent_state), spc.at,
                                TargetOf(spc.op))
       IN  /\ state' = next.state
           /\ agent_state' = next.agents
    /\ spc' = [spc EXCEPT !.at = @ + 1]
    /\ UNCHANGED <<memory_store, clock, ret, calls, started, failed, threadVars>>

\* the call returns after the last pass of its loop
SessionReturns ==
    /\ spc # NoSessionCall
    /\ spc.at > SessionSteps
    /\ spc' = NoSessionCall
    /\ ret' = [op |-> spc.op]
    /\ UNCHANGED <<memory_store, clock, state, agent_state, calls, started, failed,
                   threadVars>>

\* Agent.pause_execution or Agent.resume_execution called on one agent
AgentPauses(agent) ==
    /\ spc = NoSessionCall
    /\ agent_state' = pause_execution(agent_state, agent)
    /\ ret' = NoCall
    /\ UNCHANGED <<memory_store, clock, state, calls, started, failed, spc, threadVars>>
AgentResumes(agent) ==
    /\ spc = NoSessionCall
    /\ agent_state' = resume_execution(agent_state, agent)
    /\ ret' = NoCall
    /\ UNCHANGED <<memory_store, clock, state, calls, started, failed, spc, threadVars>>

NextSession ==
    \/ \E op \in {"pause_session", "resume_session"} : CallSession(op)
    \/ SessionStep
    \/ SessionReturns
    \/ \E agent \in Agents : AgentPauses(agent)
    \/ \E agent \in Agents : AgentResumes(agent)

SpecSession == Init /\ [][NextSession]_vars

\* the four entities in the order of propagation: the orchestrator, then the
\* router, the support agent and the escalation agent
EntityState(config, e) ==
    IF e = 1 THEN config.state ELSE config.agents[AgentOrder[e - 1]]

\* C15: pause_session (resp. resume_session) sets the orchestrator's state to
\* PAUSED (resp. ACTIVE) first and then the states of the router, the support
\* agent and the escalation agent, one at a time in this order: at every
\* point of the call the entities already set are a prefix of [orchestrator,
\* router, support, escalation], the others being as they were when the call
\* started, and when the call returns all four are in the target state, the
\* configuration the whole operation leaves in Spec.
C15_PropagationOrder ==
    /\ spc # NoSessionCall =>
          /\ spc.at \in 1..(SessionSteps + 1)
          /\ \A e \in 1..SessionSteps :
                EntityState(SessionConfig(state, agent_state), e) =
                   IF e < spc.at THEN TargetOf(spc.op) ELSE EntityState(spc.from, e)
          /\ spc.at > SessionSteps =>
                /\ AllInState(TargetOf(spc.op))
                /\ agent_state =
                      IF spc.op = "pause_session"
                      THEN pause_session_agents(spc.from.agents)
                      ELSE resume_session_agents(spc.from.agents)
    /\ ret.op \in {"pause_session", "resume_session"} => AllInState(TargetOf(ret.op))

\* half way through a pause_session that started with all four ACTIVE: the
\* orchestrator and the router are PAUSED, the other two still ACTIVE
C15_Witness ==
    /\ spc # NoSessionCall
    /\ spc.op = "pause_session"
    /\ spc.at = 3
    /\ \A e \in 1..SessionSteps : EntityState(spc.from, e) = ACTIVE
    /\ state = PAUSED
    /\ agent_state[routing_agent] = PAUSED
    /\ agent_state[support_agent] = ACTIVE
    /\ agent_state[escalation_agent] = ACTIVE
====
